---- MODULE Spec2Model ----
(***************************************************************************)
(* A model of the bloomfilter crate: the hash splitter (BloomHash), the    *)
(* fixed Bloom filter (BloomFilter), the two shift conditions              *)
(* (ShiftByDuration, ShiftByInsertions) and the rolling window of two      *)
(* filters (RollingBloomFilter).                                           *)
(*                                                                         *)
(* The 128-bit hash of the source is scaled to HashBits bits, so that the  *)
(* bit arrays (2^(HashBits/N) booleans) can be enumerated; the splitting   *)
(* into N segments by shift and mask is computed as in the source.         *)
(***************************************************************************)
EXTENDS Integers, Sequences, FiniteSets, TLC

VARIABLES
    N,                \* const generic N: the hash count of the instance
    S,                \* const generic S: the tag of the instance
    bits,             \* BloomFilter::bits of the standalone filter
    added,            \* history: the values handed to add / add_hash of the standalone filter
    filters,          \* RollingBloomFilter::filters, slots 0 and 1
    shift_condition,  \* RollingBloomFilter::shift_condition
    now,              \* the monotonic clock read by Instant::now() / elapsed()
    history           \* history: the calls made on the rolling filter, oldest first

vars == <<N, S, bits, added, filters, shift_condition, now, history>>

---------------------------------------------------------------------------
(* Bounds of the model *)

\* width of the hash in bits (128 in the source, scaled down)
HashBits == 24
\* largest insertion limit handed to ShiftByInsertions::new
MaxLimit == 3
\* largest duration handed to ShiftByDuration::new, in clock ticks
MaxDuration == 2
\* last clock tick
MaxTime == 6
\* number of calls made on a rolling filter with the insertion-count strategy
MaxOps == 4
\* number of calls made on a rolling filter with the duration strategy
MaxDurOps == 3
\* number of calls made on a rolling filter that is fed distinct values only
MaxFresh == 6

---------------------------------------------------------------------------
(* Inputs *)

\* the hash counts with a BloomHashCount impl
SupportedN == {4, 8}

\* the tags S the instances are built with
Tags == {0, 1}

\* the byte sequences handed to add and contains (those of the crate's tests)
Values == {"hello", "world", "foo", "bar", "baz", "qux"}

\* the byte sequences fed to a rolling filter with the duration strategy
DurationValues == {"world", "qux"}

RECURSIVE Pow2(_)
Pow2(n) == IF n = 0 THEN 1 ELSE 2 * Pow2(n - 1)

\* x >> k
ShiftRight(x, k) == x \div Pow2(k)

\* a & b
RECURSIVE BitAnd(_, _)
BitAnd(a, b) ==
    IF a = 0 \/ b = 0 THEN 0
    ELSE (a % 2) * (b % 2) + 2 * BitAnd(a \div 2, b \div 2)

\* gxhash::gxhash128(value, 0): a fixed function of the bytes alone.  The
\* table gives each input a HashBits-bit hash (written in octal, one digit
\* per 3-bit segment).  With N = 4 the six index sets are pairwise disjoint;
\* with N = 8 the index set of "qux" is covered by those of "hello" and
\* "world" together.  The record of "baz" indexes one position an odd number
\* of times; the other records index every position an even number of times.
gxhash128(value) ==
    CASE value = "hello" -> 2101761     \* \o10011001
      [] value = "world" -> 4793490     \* \o22222222
      [] value = "foo"   -> 7190235     \* \o33333333
      [] value = "bar"   -> 9586980     \* \o44444444
      [] value = "baz"   -> 11983726    \* \o55555556
      [] value = "qux"   -> 2691729     \* \o12211221

---------------------------------------------------------------------------
(* base.rs: BloomHash and BloomFilter *)

\* mutant of BloomHash_from: the tag salts the hash (s is added to every
\* 3-bit digit of it)
BloomHash_from_salted(n, s, value) ==
    LET hashed == (gxhash128(value) + s * 2396745) % Pow2(HashBits)
        mask   == Pow2(HashBits \div n) - 1
    IN  [i \in 0..(n - 1) |->
            BitAnd(ShiftRight(hashed, i * (HashBits \div n)), mask)]

\* mutant of BloomHash_from: the mask is 1 << (128 / N), one too many
BloomHash_from_widemask(n, s, value) ==
    LET hashed == gxhash128(value)
        mask   == Pow2(HashBits \div n)
    IN  [i \in 0..(n - 1) |->
            BitAnd(ShiftRight(hashed, i * (HashBits \div n)), mask)]

\* impl From<T> for BloomHash<N, S>, fn from: the N segments of the hash,
\* lowest first.  The tag s is a type parameter only: the hash is seeded
\* with 0 whatever s is.
BloomHash_from(n, s, value) ==
    LET hashed == gxhash128(value)
        mask   == Pow2(HashBits \div n) - 1
    IN  [i \in 0..(n - 1) |->
            BitAnd(ShiftRight(hashed, i * (HashBits \div n)), mask)]

\* BloomHash<N, S>::from, tabulated over the instances and inputs
HashRecords ==
    [n \in SupportedN |-> [s \in Tags \cup {0} |-> [value \in Values |->
        BloomHash_from(n, s, value)]]]

\* BloomHash::<N, S>::from(value)
BloomHash(n, s, value) == HashRecords[n][s][value]

\* BloomFilter::new: 2^(128/N) bits, all false
BloomFilter_new(n) == [i \in 0..(Pow2(HashBits \div n) - 1) |-> FALSE]

\* mutant of for_each_set: every indexed bit is flipped
RECURSIVE for_each_flip(_, _, _)
for_each_flip(b, hash, k) ==
    IF k \notin DOMAIN hash THEN b
    ELSE for_each_flip([b EXCEPT ![hash[k]] = ~@], hash, k + 1)

\* hash.hashes.iter().for_each(|i| bits[*i] = true), from entry k on
RECURSIVE for_each_set(_, _, _)
for_each_set(b, hash, k) ==
    IF k \notin DOMAIN hash THEN b
    ELSE for_each_set([b EXCEPT ![hash[k]] = TRUE], hash, k + 1)

\* mutant of BloomFilter_add_hash: the array is overwritten, not added to
BloomFilter_add_hash_fresh(b, hash) == for_each_set([i \in DOMAIN b |-> FALSE], hash, 0)

\* BloomFilter::add_hash: every indexed bit becomes true
BloomFilter_add_hash(b, hash) == for_each_set(b, hash, 0)

\* BloomFilter::add
BloomFilter_add(b, n, s, value) == BloomFilter_add_hash(b, BloomHash(n, s, value))

\* BloomFilter::contains: the hash record is built as BloomHash<N>, tag 0
BloomFilter_contains(b, n, value) ==
    LET hash == BloomHash(n, 0, value)
    IN  \A k \in DOMAIN hash : b[hash[k]]

---------------------------------------------------------------------------
(* shift.rs: the shift conditions.  A condition is a record tagged with its
   implementing type; t is the reading of the clock at the call. *)

\* ShiftByDuration::new
ShiftByDuration_new(duration, t) ==
    [kind |-> "duration", duration |-> duration, last_shift |-> t]

\* ShiftByInsertions::new
ShiftByInsertions_new(limit) ==
    [kind |-> "insertions", insertions |-> limit, insertion_count |-> 0]

\* mutant of ShiftByDuration_should_shift: >= for >
ShiftByDuration_should_shift_ge(sc, t) == (t - sc.last_shift) >= sc.duration

\* ShiftByDuration::should_shift: last_shift.elapsed() > duration
ShiftByDuration_should_shift(sc, t) == (t - sc.last_shift) > sc.duration

\* mutant of ShiftByDuration_do_shift: last_shift is left as it was
ShiftByDuration_do_shift_stale(sc, t) == sc

\* ShiftByDuration::do_shift
ShiftByDuration_do_shift(sc, t) == [sc EXCEPT !.last_shift = t]

\* ShiftByDuration::increment: does nothing
ShiftByDuration_increment(sc) == sc

\* mutant of ShiftByInsertions_should_shift: > for >=
ShiftByInsertions_should_shift_gt(sc) == sc.insertion_count > sc.insertions

\* ShiftByInsertions::should_shift
ShiftByInsertions_should_shift(sc) == sc.insertion_count >= sc.insertions

\* mutant of ShiftByInsertions_do_shift: the count is not reset
ShiftByInsertions_do_shift_keep(sc) == sc

\* ShiftByInsertions::do_shift
ShiftByInsertions_do_shift(sc) == [sc EXCEPT !.insertion_count = 0]

\* ShiftByInsertions::increment
ShiftByInsertions_increment(sc) == [sc EXCEPT !.insertion_count = @ + 1]

\* ShiftCondition::should_shift, dispatched on the implementing type
should_shift(sc, t) ==
    IF sc.kind = "duration" THEN ShiftByDuration_should_shift(sc, t)
    ELSE ShiftByInsertions_should_shift(sc)

\* ShiftCondition::do_shift
do_shift(sc, t) ==
    IF sc.kind = "duration" THEN ShiftByDuration_do_shift(sc, t)
    ELSE ShiftByInsertions_do_shift(sc)

\* ShiftCondition::increment
increment(sc) ==
    IF sc.kind = "duration" THEN ShiftByDuration_increment(sc)
    ELSE ShiftByInsertions_increment(sc)

\* ShiftCondition::should_shift_after_increment: the condition after
\* increment(), and what should_shift() then answers
should_shift_after_increment(sc, t) ==
    LET inc == increment(sc)
    IN  [shift_condition |-> inc, result |-> should_shift(inc, t)]

---------------------------------------------------------------------------
(* rolling.rs: RollingBloomFilter.  The methods take the fields and give the
   fields after the call. *)

\* RollingBloomFilter::new
RollingBloomFilter_new(n, sc) ==
    [filters |-> [i \in {0, 1} |-> BloomFilter_new(n)], shift_condition |-> sc]

\* mutant of swap: the slots stay where they are
swap_none(f) == f

\* <[_]>::swap(0, 1)
swap(f) == [i \in {0, 1} |-> f[1 - i]]

\* mutant of RollingBloomFilter_shift: slot 0 is not replaced
RollingBloomFilter_shift_noclear(f, sc, n, t) ==
    [filters |-> swap(f), shift_condition |-> do_shift(sc, t)]

\* mutant of RollingBloomFilter_shift: slot 1 is replaced instead of slot 0
RollingBloomFilter_shift_newest(f, sc, n, t) ==
    [filters         |-> swap([f EXCEPT ![1] = BloomFilter_new(n)]),
     shift_condition |-> do_shift(sc, t)]

\* RollingBloomFilter::shift
RollingBloomFilter_shift(f, sc, n, t) ==
    [filters         |-> swap([f EXCEPT ![0] = BloomFilter_new(n)]),
     shift_condition |-> do_shift(sc, t)]

\* mutant of RollingBloomFilter_add: the hash is written to slot 0 only
RollingBloomFilter_add_single(f, sc, n, s, t, value) ==
    LET hash   == BloomHash(n, s, value)
        one    == [f EXCEPT ![0] = BloomFilter_add_hash(f[0], hash)]
        after  == should_shift_after_increment(sc, t)
        moved  == RollingBloomFilter_shift(one, after.shift_condition, n, t)
    IN  IF after.result
        THEN [filters |-> moved.filters, shift_condition |-> moved.shift_condition,
              shifted |-> TRUE]
        ELSE [filters |-> one, shift_condition |-> after.shift_condition,
              shifted |-> FALSE]

\* RollingBloomFilter::add; shifted tells whether the call ran shift()
RollingBloomFilter_add(f, sc, n, s, t, value) ==
    LET hash   == BloomHash(n, s, value)
        both   == [f EXCEPT ![0] = BloomFilter_add_hash(f[0], hash),
                            ![1] = BloomFilter_add_hash(f[1], hash)]
        after  == should_shift_after_increment(sc, t)
        moved  == RollingBloomFilter_shift(both, after.shift_condition, n, t)
    IN  IF after.result
        THEN [filters |-> moved.filters, shift_condition |-> moved.shift_condition,
              shifted |-> TRUE]
        ELSE [filters |-> both, shift_condition |-> after.shift_condition,
              shifted |-> FALSE]

\* mutant of RollingBloomFilter_contains: slot 1 is asked
RollingBloomFilter_contains_newest(f, n, value) == BloomFilter_contains(f[1], n, value)

\* RollingBloomFilter::contains: slot 0 alone is asked
RollingBloomFilter_contains(f, n, value) == BloomFilter_contains(f[0], n, value)

---------------------------------------------------------------------------
(* The standalone filter as a state machine *)

NoRolling == [filters |-> <<>>, shift_condition |-> [kind |-> "none"]]

InitFixed ==
    /\ N \in SupportedN
    /\ S \in Tags
    /\ bits = BloomFilter_new(N)
    /\ added = {}
    /\ filters = NoRolling.filters
    /\ shift_condition = NoRolling.shift_condition
    /\ now = 0
    /\ history = <<>>

\* filter.add(value)
FilterAdd(value) ==
    /\ bits' = BloomFilter_add(bits, N, S, value)
    /\ added' = added \cup {value}
    /\ UNCHANGED <<N, S, filters, shift_condition, now, history>>

\* filter.add_hash(&BloomHash::from(value))
FilterAddHash(value) ==
    /\ bits' = BloomFilter_add_hash(bits, BloomHash(N, S, value))
    /\ added' = added \cup {value}
    /\ UNCHANGED <<N, S, filters, shift_condition, now, history>>

NextFixed ==
    \/ \E value \in Values : FilterAdd(value)
    \/ \E value \in Values : FilterAddHash(value)

SpecFixed == InitFixed /\ [][NextFixed]_vars

---------------------------------------------------------------------------
(* The rolling filter as a state machine *)

\* what a call leaves in the history
Event(op, value, rotated, t) == [op |-> op, value |-> value, rotated |-> rotated, at |-> t]

InitRolling(sc) ==
    /\ N \in SupportedN
    /\ S \in Tags
    /\ bits = BloomFilter_new(N)
    /\ added = {}
    /\ filters = RollingBloomFilter_new(N, sc).filters
    /\ shift_condition = RollingBloomFilter_new(N, sc).shift_condition
    /\ now = 0
    /\ history = <<>>

\* RollingBloomFilter::new(ShiftByInsertions::new(limit))
InitInsertions == \E limit \in 0..MaxLimit : InitRolling(ShiftByInsertions_new(limit))

\* RollingBloomFilter::new(ShiftByDuration::new(duration))
InitDuration == \E duration \in 1..MaxDuration : InitRolling(ShiftByDuration_new(duration, 0))

\* rolling.add(value).  The call is taken at one reading of the clock:
\* elapsed() in should_shift and Instant::now() in do_shift both read now.
Add(value) ==
    LET r == RollingBloomFilter_add(filters, shift_condition, N, S, now, value)
    IN  /\ filters' = r.filters
        /\ shift_condition' = r.shift_condition
        /\ history' = Append(history, Event("add", value, r.shifted, now))
        /\ UNCHANGED <<N, S, bits, added, now>>

\* rolling.shift(), called by the owner
Shift ==
    LET r == RollingBloomFilter_shift(filters, shift_condition, N, now)
    IN  /\ filters' = r.filters
        /\ shift_condition' = r.shift_condition
        /\ history' = Append(history, Event("shift", "", TRUE, now))
        /\ UNCHANGED <<N, S, bits, added, now>>

\* the clock advances between calls
Tick ==
    /\ now < MaxTime
    /\ now' = now + 1
    /\ UNCHANGED <<N, S, bits, added, filters, shift_condition, history>>

\* the values already handed to rolling.add
Added == {history[i].value : i \in {j \in DOMAIN history : history[j].op = "add"}}

NextInsertions ==
    \/ \E value \in Values : Len(history) < MaxOps /\ Add(value)
    \/ Len(history) < MaxOps /\ Shift

NextDuration ==
    \/ \E value \in DurationValues : Len(history) < MaxDurOps /\ Add(value)
    \/ Len(history) < MaxDurOps /\ Shift
    \/ Tick

NextFresh ==
    \E value \in Values \ Added : Len(history) < MaxFresh /\ Add(value)

SpecInsertions == InitInsertions /\ [][NextInsertions]_vars

SpecDuration == InitDuration /\ [][NextDuration]_vars

SpecFresh == InitInsertions /\ [][NextFresh]_vars

Init == InitInsertions \/ InitDuration

Next ==
    \/ shift_condition.kind = "insertions" /\ NextInsertions
    \/ shift_condition.kind = "duration" /\ NextDuration

Spec == Init /\ [][Next]_vars

---------------------------------------------------------------------------
(* What the history tells *)

\* the value is reported present by the rolling filter
Contains(value) == RollingBloomFilter_contains(filters, N, value)

\* the positions the value's hash record indexes
IndexSet(value) == {BloomHash(N, S, value)[k] : k \in 0..(N - 1)}

\* the positions of the add calls in the history
Adds == {i \in DOMAIN history : history[i].op = "add"}

TotalAdds == Cardinality(Adds)

ManualShifts == Cardinality({i \in DOMAIN history : history[i].op = "shift"})

\* the calls that rotated the window: shift(), and the adds that ran it
Rotated == {i \in DOMAIN history : history[i].rotated}

Rotations == Cardinality(Rotated)

Max(set) == CHOOSE m \in set : \A k \in set : k <= m

\* the last rotation before call i (0: none since construction)
RotationBefore(i) == Max({0} \cup {j \in Rotated : j < i})

\* call i is the AddNumber(i)-th add since the last rotation or construction
AddNumber(i) == Cardinality({j \in Adds : RotationBefore(i) < j /\ j <= i})

\* the clock when the window of call i started
WindowStartBefore(i) ==
    IF RotationBefore(i) = 0 THEN 0 ELSE history[RotationBefore(i)].at

\* the time elapsed in the window when call i was processed
Elapsed(i) == history[i].at - WindowStartBefore(i)

\* the last add of the value (0: never added)
LastAddOf(value) == Max({0} \cup {i \in Adds : history[i].value = value})

\* the rotations since the value was last added, that add's own included
RotationsSince(value) == Cardinality({j \in Rotated : j >= LastAddOf(value)})

\* the rotations after call i
RotationsAfter(i) == Cardinality({j \in Rotated : j > i})

Last == history[Len(history)]

---------------------------------------------------------------------------
(* C1 *)

\* C1: no false negatives on the fixed filter: every value handed to add or
\* add_hash is reported by contains in every later state, for either N and
\* any tag S.
TheoremC1 == \A value \in added : BloomFilter_contains(bits, N, value)

\* a filter with a non-zero tag has taken two values and reports both
WitnessC1 ==
    /\ S # 0
    /\ {"hello", "world"} \subseteq added
    /\ BloomFilter_contains(bits, N, "hello")
    /\ BloomFilter_contains(bits, N, "world")

---------------------------------------------------------------------------
(* C2 *)

\* C2: immediate visibility: right after rolling.add(v) returns, contains(v)
\* is true, whether or not that call rotated the window.
TheoremC2 ==
    (history # <<>> /\ Last.op = "add") => Contains(Last.value)

\* the add that just returned rotated the window, not for the first time
WitnessC2 ==
    /\ history # <<>>
    /\ Last.op = "add"
    /\ Last.rotated
    /\ Rotations >= 2
    /\ Contains(Last.value)

---------------------------------------------------------------------------
(* C3 *)

\* C3: with the insertion-count strategy and limit L >= 1, the L-th add
\* since the last rotation (or construction) rotates inside the call and
\* the adds numbered 1..L-1 do not; without manual shifts, n adds make
\* exactly n div L rotations.
TheoremC3 ==
    (shift_condition.kind = "insertions" /\ shift_condition.insertions >= 1) =>
        /\ \A i \in Adds :
              /\ AddNumber(i) <= shift_condition.insertions
              /\ history[i].rotated <=> (AddNumber(i) = shift_condition.insertions)
        /\ ManualShifts = 0 =>
              Rotations = TotalAdds \div shift_condition.insertions

\* limit 2: four adds and no manual shift have made two rotations
WitnessC3 ==
    /\ shift_condition.kind = "insertions"
    /\ shift_condition.insertions = 2
    /\ ManualShifts = 0
    /\ TotalAdds = 4
    /\ Rotations = 2

---------------------------------------------------------------------------
(* C4 *)

\* the scenario of tests::shift_by_insertions: a fresh rolling filter with
\* limit 3 has taken "hello", "world", "foo", "bar", in that order
ScenarioC4 ==
    /\ shift_condition.kind = "insertions"
    /\ shift_condition.insertions = 3
    /\ Len(history) = 4
    /\ \A i \in 1..4 : history[i].op = "add"
    /\ [i \in 1..4 |-> history[i].value] = <<"hello", "world", "foo", "bar">>

AllFourContained == \A value \in {"hello", "world", "foo", "bar"} : Contains(value)

\* C4 as claimed: in the scenario the first rotation is made by the 4th
\* insertion ("bar"), none by the first three, and all four values are
\* contained afterwards.
ClaimedC4 ==
    ScenarioC4 =>
        /\ ~history[1].rotated /\ ~history[2].rotated /\ ~history[3].rotated
        /\ history[4].rotated
        /\ AllFourContained

\* C4 amended: in the scenario the first rotation is made by the 3rd
\* insertion ("foo"), none by the first two and none by the 4th, and all
\* four values are contained afterwards.
TheoremC4 ==
    ScenarioC4 =>
        /\ ~history[1].rotated /\ ~history[2].rotated
        /\ history[3].rotated
        /\ ~history[4].rotated
        /\ AllFourContained

\* the scenario has been played on the filter of the test (N = 4): one
\* rotation, and the counter has restarted
WitnessC4 ==
    /\ ScenarioC4
    /\ N = 4
    /\ Rotations = 1
    /\ shift_condition.insertion_count = 1
    /\ AllFourContained

---------------------------------------------------------------------------
(* C5 *)

\* the values added have pairwise disjoint index sets
PairwiseDisjoint ==
    \A i, j \in Adds :
        i # j => IndexSet(history[i].value) \cap IndexSet(history[j].value) = {}

\* C5: insertion-count strategy, limit L >= 1, n = q*L + r adds of values
\* with pairwise disjoint index sets and no manual shift: every value is
\* contained when q = 0; when q >= 1 exactly the values numbered above
\* (q-1)*L, the last L + r, are contained.
TheoremC5 ==
    (/\ shift_condition.kind = "insertions"
     /\ shift_condition.insertions >= 1
     /\ ManualShifts = 0
     /\ PairwiseDisjoint) =>
        LET L == shift_condition.insertions
            n == Len(history)
            q == n \div L
        IN  \A i \in 1..n :
                Contains(history[i].value) <=> (q = 0 \/ i > (q - 1) * L)

\* limit 3, six adds of disjoint values: the 4th, 5th and 6th are contained,
\* the first three are not
WitnessC5 ==
    /\ shift_condition.kind = "insertions"
    /\ shift_condition.insertions = 3
    /\ ManualShifts = 0
    /\ PairwiseDisjoint
    /\ Len(history) = 6
    /\ \A i \in 1..3 : ~Contains(history[i].value)
    /\ \A i \in 4..6 : Contains(history[i].value)

---------------------------------------------------------------------------
(* C6 *)

DurationStrategy == shift_condition.kind = "duration"

\* C6 as claimed: with the duration strategy and window D, an add processed
\* when the time elapsed since the last rotation (or construction) is D or
\* more, exactly D included, rotates inside the call.
ClaimedC6 ==
    DurationStrategy =>
        \A i \in Adds : Elapsed(i) >= shift_condition.duration => history[i].rotated

\* C6 amended: an add processed when the time elapsed since the last
\* rotation (or construction) is strictly more than D rotates inside the
\* call; an add processed when exactly D has elapsed does not.
TheoremC6 ==
    DurationStrategy =>
        \A i \in Adds :
            /\ Elapsed(i) > shift_condition.duration => history[i].rotated
            /\ Elapsed(i) = shift_condition.duration => ~history[i].rotated

\* one add came exactly D after the window started and did not rotate, a
\* later one came after more than D and did
WitnessC6 ==
    /\ DurationStrategy
    /\ \E i, j \in Adds :
          /\ i < j
          /\ Elapsed(i) = shift_condition.duration /\ ~history[i].rotated
          /\ Elapsed(j) > shift_condition.duration /\ history[j].rotated

---------------------------------------------------------------------------
(* C7 *)

\* the clock when the current window started: the last rotation, or
\* construction
WindowStart == WindowStartBefore(Len(history) + 1)

\* C7: with the duration strategy and window D, no add rotates while less
\* than D has elapsed since the last rotation (automatic or manual) or
\* construction, and adds that do not rotate leave the window start
\* (last_shift) where it was.
TheoremC7 ==
    DurationStrategy =>
        /\ \A i \in Adds : Elapsed(i) < shift_condition.duration => ~history[i].rotated
        /\ shift_condition.last_shift = WindowStart

\* after a rotation, two adds at different times less than D into the new
\* window: neither rotated
WitnessC7 ==
    /\ DurationStrategy
    /\ Rotations >= 1
    /\ \E i, j \in Adds :
          /\ i < j
          /\ RotationBefore(i) = RotationBefore(j) /\ RotationBefore(i) > 0
          /\ Elapsed(i) < Elapsed(j) /\ Elapsed(j) < shift_condition.duration
          /\ ~history[i].rotated /\ ~history[j].rotated

---------------------------------------------------------------------------
(* C8 *)

\* call i is the first add after a rotation and did not rotate itself
FirstAddAfterRotation(i) ==
    /\ i \in Adds
    /\ i > 1
    /\ history[i - 1].rotated
    /\ ~history[i].rotated

\* C8: a value added by the first add after a rotation (that add not
\* rotating) is contained in every state up to the second rotation after
\* its insertion: through its own window, right after the next rotation
\* and through the following window, whatever else is added.
TheoremC8 ==
    \A i \in DOMAIN history :
        (FirstAddAfterRotation(i) /\ RotationsAfter(i) <= 1) =>
            Contains(history[i].value)

\* such a value has lived through the next rotation, and another value was
\* then added in the following window
WitnessC8 ==
    \E i \in DOMAIN history :
        /\ FirstAddAfterRotation(i)
        /\ RotationsAfter(i) = 1
        /\ Last.op = "add" /\ ~Last.rotated
        /\ Last.value # history[i].value
        /\ LastAddOf(history[i].value) = i
        /\ Contains(history[i].value)

---------------------------------------------------------------------------
(* C9 *)

\* the values whose last insertion has seen fewer than two rotations
Retained == {value \in Added : RotationsSince(value) <= 1}

\* every position the value indexes is indexed by a retained value
Covered(value) ==
    IndexSet(value) \subseteq UNION {IndexSet(other) : other \in Retained}

\* C9 as claimed: once two rotations have occurred after the (last)
\* insertion of a value, contains is false for it, whatever other values
\* were added in between.
ClaimedC9 ==
    \A value \in Added : RotationsSince(value) >= 2 => ~Contains(value)

\* C9 amended: once two rotations have occurred after the (last) insertion
\* of a value, contains is false for it unless every position of its hash
\* record is also indexed by values added after the first of those two
\* rotations, in which case contains is true (a false positive).
TheoremC9 ==
    \A value \in Added :
        RotationsSince(value) >= 2 => (Contains(value) <=> Covered(value))

\* a value has seen two rotations since its insertion, other values were
\* added meanwhile and are contained, and it is not
WitnessC9 ==
    \E value \in Added :
        /\ RotationsSince(value) >= 2
        /\ ~Contains(value)
        /\ \E other \in Retained : Contains(other)

---------------------------------------------------------------------------
(* C10 *)

\* the clock at the last add of the value
AddTime(value) == history[LastAddOf(value)].at

\* C10 as claimed: with the duration strategy and window D, a value added
\* at time t and not added again is no longer held by slot 0 at any time
\* >= t + 2*D, whatever calls are made later, none included.
ClaimedC10 ==
    DurationStrategy =>
        \A value \in Added :
            now >= AddTime(value) + 2 * shift_condition.duration => ~Contains(value)

\* C10 amended: a value added and not added again is held by slot 0 until
\* two rotations have occurred after its insertion and is discarded by the
\* second (it is reported only if values added after the first of the two
\* cover its positions).  With the duration strategy the rotations happen
\* only inside add calls processed more than D after the window started, or
\* in shift calls: there is no bound in clock time, and with no later add
\* the value is held at every time >= t + 2*D.
TheoremC10 ==
    DurationStrategy =>
        /\ \A value \in Added :
              /\ RotationsSince(value) <= 1 => Contains(value)
              /\ RotationsSince(value) >= 2 => (Contains(value) => Covered(value))
        /\ \A i \in Adds :
              history[i].rotated => Elapsed(i) > shift_condition.duration

\* without a manual shift, a value has been discarded by the second
\* rotation after its insertion, which came later than t + 2*D
WitnessC10 ==
    /\ DurationStrategy
    /\ ManualShifts = 0
    /\ \E value \in Added :
          /\ RotationsSince(value) = 2
          /\ ~Contains(value)
          /\ now > AddTime(value) + 2 * shift_condition.duration

---------------------------------------------------------------------------
(* The standalone filter and the rolling filter, either one *)

InitAll == InitFixed \/ Init

NextAll ==
    \/ shift_condition.kind = "none" /\ NextFixed
    \/ shift_condition.kind # "none" /\ Next

SpecAll == InitAll /\ [][NextAll]_vars

\* the positions of the true bits of a bit array
TrueBits(b) == {i \in DOMAIN b : b[i]}

\* the bit array with no true bit, of the length BloomFilter::new gives
AllFalse == BloomFilter_new(N)

---------------------------------------------------------------------------
(* C11 *)

\* the step is a call that ran shift(): a manual shift(), or an add whose
\* shift condition tripped
RotatingStep == history' # history /\ history'[Len(history')].rotated

\* slot 1 as shift() finds it: as it is for a manual call, with the hash of
\* the value written for a call from add
SlotOneAtShift ==
    LET e == history'[Len(history')]
    IN  IF e.op = "add" THEN BloomFilter_add_hash(filters[1], BloomHash(N, S, e.value))
        ELSE filters[1]

\* C11: after shift(), called manually or from add, slot 0 is bit for bit
\* what slot 1 was just before the call, slot 1 is all false, what slot 0
\* held before is gone, and the window state of the shift condition is
\* reset (insertion_count = 0, last_shift = now).
TheoremC11 ==
    [][RotatingStep =>
          /\ filters'[0] = SlotOneAtShift
          /\ filters'[1] = AllFalse
          /\ shift_condition'.kind = "insertions" => shift_condition'.insertion_count = 0
          /\ shift_condition'.kind = "duration" => shift_condition'.last_shift = now
      ]_vars

\* a shift() has just run on a filter whose slot 0 held a value slot 1 did
\* not: that value is gone, slot 1 is empty and slot 0 is not
WitnessC11 ==
    /\ history # <<>>
    /\ Last.rotated
    /\ Rotations >= 2
    /\ filters[1] = AllFalse
    /\ filters[0] # AllFalse
    /\ \E value \in Added : ~Contains(value)

---------------------------------------------------------------------------
(* C12 *)

\* every true bit of b is a true bit of c
Within(b, c) == \A i \in DOMAIN b : b[i] => c[i]

\* C12: no call turns a true bit false.  The true bits of a standalone
\* filter only grow; in the rolling filter a call that does not run shift()
\* leaves the true bits of both slots supersets of what they were, so a bit
\* disappears only when shift() replaces a filter.
TheoremC12 ==
    [][/\ Within(bits, bits')
       /\ (shift_condition.kind # "none" /\ ~RotatingStep) =>
              /\ Within(filters[0], filters'[0])
              /\ Within(filters[1], filters'[1])
      ]_vars

\* an add that did not rotate has just returned: slot 1 holds bits, and
\* slot 0 holds those and bits from before the last rotation
WitnessC12 ==
    /\ history # <<>>
    /\ Last.op = "add" /\ ~Last.rotated
    /\ Rotations >= 1
    /\ TrueBits(filters[1]) # {}
    /\ TrueBits(filters[1]) \subseteq TrueBits(filters[0])
    /\ TrueBits(filters[1]) # TrueBits(filters[0])

---------------------------------------------------------------------------
(* C13 *)

\* C13: insertion on a fixed filter is idempotent: in every state and for
\* every value, add(V); add(V) leaves the bit array that one add(V) leaves,
\* and the length of the array, 2^(128/N), never changes.
TheoremC13 ==
    /\ DOMAIN bits = DOMAIN AllFalse
    /\ \A value \in Values :
          LET once  == BloomFilter_add(bits, N, S, value)
              twice == BloomFilter_add(once, N, S, value)
          IN  /\ twice = once
              /\ DOMAIN once = DOMAIN bits

\* "baz", whose record indexes a position an odd number of times, is in a
\* filter that holds other values too; another add of it changes nothing
WitnessC13 ==
    /\ shift_condition.kind = "none"
    /\ "baz" \in added
    /\ Cardinality(added) >= 3
    /\ BloomFilter_add(bits, N, S, "baz") = bits
    /\ bits # AllFalse

---------------------------------------------------------------------------
(* C14 *)

\* the rolling filter after one more add of the value, called now
AddAgain(value) == RollingBloomFilter_add(filters, shift_condition, N, S, now, value)

\* contains answers the same for every value on the slots f as on the
\* current ones
SameAnswers(f) ==
    \A other \in Values : RollingBloomFilter_contains(f, N, other) = Contains(other)

\* the slots f have the lengths of the current ones
SameSizes(f) == \A slot \in {0, 1} : DOMAIN f[slot] = DOMAIN filters[slot]

\* C14 as claimed: in any reachable state, one more add of a value that was
\* added and is still contained changes the answer of contains for no
\* value, and changes no bit-array size.
ClaimedC14 ==
    \A value \in Added :
        Contains(value) =>
            /\ SameAnswers(AddAgain(value).filters)
            /\ SameSizes(AddAgain(value).filters)

\* C14 amended: in any reachable state, one more add of a value that was
\* added and is still contained changes no bit-array size and, unless that
\* call rotates the window, changes the answer of contains for no value.
\* The call counts as an insertion like any other: when it trips the shift
\* condition, the values held by the old slot 0 alone stop being contained.
TheoremC14 ==
    \A value \in Added :
        Contains(value) =>
            \A again \in {AddAgain(value)} :
                /\ SameSizes(again.filters)
                /\ ~again.shifted => SameAnswers(again.filters)

\* a value added before the last rotation is contained, and so are values
\* added since; one more add of it would not rotate: it would write slot 1
\* and leave slot 0 as it is
WitnessC14 ==
    \E value \in Added :
        /\ Contains(value)
        /\ Rotations >= 1
        /\ \E other \in Added : other # value /\ Contains(other)
        /\ ~AddAgain(value).shifted
        /\ AddAgain(value).filters[1] # filters[1]
        /\ AddAgain(value).filters[0] = filters[0]

---------------------------------------------------------------------------
(* C15 *)

\* the bit arrays the instance holds
BitArrays ==
    {bits} \cup (IF shift_condition.kind = "none" THEN {}
                 ELSE {filters[0], filters[1]})

\* the hash records add (tag S) and contains (tag 0) build for the value
RecordsOf(value) == {BloomHash(N, S, value), BloomHash(N, 0, value)}

\* 2^(128/N), for each supported N
ArrayLen == [n \in SupportedN |-> Pow2(HashBits \div n)]

\* every index value the records of the inputs hold, for each N and tag
IndexValues ==
    [n \in SupportedN |-> [s \in Tags |->
        UNION {{BloomHash(n, t, value)[k] : k \in 0..(n - 1)} :
                   t \in {s, 0}, value \in Values}]]

\* C15: for every input and either supported N, the record has N index
\* values, each in [0, 2^(128/N)), and that is exactly the length of every
\* bit array new() made: add_hash and contains never index outside it.
TheoremC15 ==
    /\ \A value \in Values : \A hash \in RecordsOf(value) :
          DOMAIN hash = 0..(N - 1)
    /\ \A i \in IndexValues[N][S] : i >= 0 /\ i < ArrayLen[N]
    /\ \A b \in BitArrays :
          /\ DOMAIN b = 0..(ArrayLen[N] - 1)
          /\ IndexValues[N][S] \subseteq DOMAIN b

\* a standalone filter has taken every input: the highest position any
\* record indexes is set, and it is inside the array
WitnessC15 ==
    /\ shift_condition.kind = "none"
    /\ added = Values
    /\ \E value \in Values : \E k \in 0..(N - 1) :
          /\ \A other \in Values : \A j \in 0..(N - 1) :
                BloomHash(N, S, other)[j] <= BloomHash(N, S, value)[k]
          /\ bits[BloomHash(N, S, value)[k]]

---------------------------------------------------------------------------
(* C16 *)

\* the last rotation (0: none), and the one before it (0: none)
LastRotation == RotationBefore(Len(history) + 1)

PreviousRotation == RotationBefore(LastRotation)

\* the adds of the current window, and those of the current and the
\* previous window (the add that rotated closes its window)
NewestAdds == {i \in Adds : i > LastRotation}

OldestAdds == {i \in Adds : i > PreviousRotation}

\* the positions the values of these adds index
IndexedBy(adds) == UNION {IndexSet(history[i].value) : i \in adds}

\* C16: with the insertion-count strategy, limit L >= 1, and adds only, in
\* every state the true bits of slot 0 are the union of the index sets of
\* the adds of at most two windows (at most 2*L adds) and those of slot 1 of
\* the adds of at most one window (at most L adds); an older insertion has
\* left no bit that these do not set.
TheoremC16 ==
    (/\ shift_condition.kind = "insertions"
     /\ shift_condition.insertions >= 1
     /\ ManualShifts = 0) =>
        /\ TrueBits(filters[0]) = IndexedBy(OldestAdds)
        /\ Cardinality(OldestAdds) <= 2 * shift_condition.insertions
        /\ TrueBits(filters[1]) = IndexedBy(NewestAdds)
        /\ Cardinality(NewestAdds) <= shift_condition.insertions

\* limit 2, five adds: slot 0 holds the bits of the last three, slot 1 those
\* of the last one, and the first value has left no bit
WitnessC16 ==
    /\ shift_condition.kind = "insertions"
    /\ shift_condition.insertions = 2
    /\ Len(history) = 5
    /\ Cardinality(OldestAdds) = 3
    /\ Cardinality(NewestAdds) = 1
    /\ TrueBits(filters[0]) = IndexedBy({3, 4, 5})
    /\ IndexSet(history[1].value) \cap TrueBits(filters[0]) = {}

---------------------------------------------------------------------------
(* C17 *)

\* the index set BloomHash<N, s> derives for value
SaltedIndexSet(s, value) == {BloomHash(N, s, value)[k] : k \in 0..(N - 1)}

\* C17 as claimed: the index set of a byte sequence is computed with the
\* salt S, so for a filter with tag S and any other tag some byte sequence
\* gets another index set under the other tag, and a filter with a non-zero
\* tag that has taken values has indexed one of them differently from the
\* untagged hash that contains uses.  Violated: From ignores S, the hash is
\* always gxhash128(value, 0).
ClaimedC17 ==
    /\ \A s \in Tags \ {S} :
          \E value \in Values : SaltedIndexSet(s, value) # SaltedIndexSet(S, value)
    /\ (S # 0 /\ added # {}) =>
          \E value \in added : SaltedIndexSet(S, value) # SaltedIndexSet(0, value)

---------------------------------------------------------------------------
(* C18 *)

\* what a test of either slot would answer
InEitherSlot(value) ==
    \/ BloomFilter_contains(filters[0], N, value)
    \/ BloomFilter_contains(filters[1], N, value)

\* C18: newest within oldest: in every state reached by add and shift calls
\* every true bit of slot 1 is true in slot 0, so contains, which tests
\* slot 0 only, answers as a test of either slot would.
TheoremC18 ==
    /\ Within(filters[1], filters[0])
    /\ \A value \in Values : Contains(value) <=> InEitherSlot(value)

\* after a rotation and a later add, slot 1 is non-empty, slot 0 has bits
\* slot 1 lacks, and a value is reported that slot 1 alone would not report
WitnessC18 ==
    /\ Rotations >= 1
    /\ Len(history) >= 1
    /\ Last.op = "add"
    /\ ~Last.rotated
    /\ TrueBits(filters[1]) # {}
    /\ TrueBits(filters[0]) # TrueBits(filters[1])
    /\ \E value \in Added :
          /\ Contains(value)
          /\ ~BloomFilter_contains(filters[1], N, value)

---------------------------------------------------------------------------
(* C19 *)

\* C19: counter bound: with the insertion-count strategy and limit L >= 1,
\* after every completed add or shift call 0 <= insertion_count < L, so
\* should_shift() is false between calls.
TheoremC19 ==
    (shift_condition.kind = "insertions" /\ shift_condition.insertions >= 1) =>
        /\ shift_condition.insertion_count >= 0
        /\ shift_condition.insertion_count < shift_condition.insertions
        /\ ~should_shift(shift_condition, now)

\* limit 3: the counter was reset by a rotation and has climbed back to 2
WitnessC19 ==
    /\ shift_condition.kind = "insertions"
    /\ shift_condition.insertions = 3
    /\ Rotations >= 1
    /\ Len(history) >= 1
    /\ Last.op = "add"
    /\ shift_condition.insertion_count = 2

---------------------------------------------------------------------------
(* C20 *)

\* C20: degenerate limits: with the insertion-count strategy and limit 0 or
\* 1 every add rotates; after each add slot 1 is all-false and slot 0 holds
\* exactly the index bits of the value just added, so contains is true for
\* it and false for every earlier value whose index set it does not cover.
TheoremC20 ==
    (shift_condition.kind = "insertions" /\ shift_condition.insertions <= 1) =>
        /\ \A i \in Adds : history[i].rotated
        /\ (Len(history) >= 1 /\ Last.op = "add") =>
              /\ filters[1] = AllFalse
              /\ TrueBits(filters[0]) = IndexSet(Last.value)
              /\ Contains(Last.value)
              /\ \A value \in Added :
                    ~(IndexSet(value) \subseteq IndexSet(Last.value)) =>
                        ~Contains(value)

\* limit 0: the second add has rotated too and the first value is gone
WitnessC20 ==
    /\ shift_condition.kind = "insertions"
    /\ shift_condition.insertions = 0
    /\ TotalAdds >= 2
    /\ Last.op = "add"
    /\ Last.rotated
    /\ Contains(Last.value)
    /\ \E value \in Added : ~Contains(value)

====
